---- MODULE Spec2Model ----
(***************************************************************************)
(* Model of bridge-server/app.py: the bridge endpoint                      *)
(* (process_alexa_command), the tool-calling loop                          *)
(* (process_command_with_claude) and the tool executor (execute_tool).     *)
(*                                                                         *)
(* Strings that the code inspects character by character (entity           *)
(* identifiers, domains, answer texts) are sequences of one-character      *)
(* strings; dicts are functions from keys to values; a missing key is a    *)
(* key outside the DOMAIN.                                                 *)
(***************************************************************************)
EXTENDS Integers, Sequences, FiniteSets, TLC

VARIABLES
    pc,             \* position of the request handler
    request,        \* the inbound request: x_api_key, command, context
    user_message,   \* process_command_with_claude: user_message
    response,       \* process_command_with_claude: response
    block_idx,      \* index of the for loop over response.content
    tool_results,   \* process_command_with_claude: tool_results
    tool_name,      \* execute_tool: argument of the latest activation
    tool_input,     \* execute_tool: argument of the latest activation
    tool_return,    \* outcome of the latest execute_tool activation
    response_text,  \* value returned by process_command_with_claude
    http_response,  \* what the endpoint sent back
    llm_calls,      \* capture of every messages.create call and its reply
    rest_calls,     \* capture of every outbound REST call, in issue order
    executed,       \* capture of every execute_tool activation, in order
    handlers,       \* the locals of each request handler of the server process
    thread,         \* the handler that holds the event loop thread, 0 if none
    now             \* the wall clock, in ticks

\* the server process with several request handlers
server == <<handlers, thread, now>>

\* one request handler and execute_tool looked at alone
single == <<pc, request, user_message, response, block_idx, tool_results,
            tool_name, tool_input, tool_return, response_text, http_response,
            llm_calls, rest_calls, executed>>

vars == <<pc, request, user_message, response, block_idx, tool_results,
          tool_name, tool_input, tool_return, response_text, http_response,
          llm_calls, rest_calls, executed, handlers, thread, now>>

(***************************************************************************)
(* Bounds                                                                  *)
(***************************************************************************)
\* cap on the number of messages.create calls of one request (the code has none)
MaxLLMCalls == 3
\* number of outbound REST calls whose outcome the backend decides per invocation
MaxRestCalls == 2

(***************************************************************************)
(* Python values                                                           *)
(***************************************************************************)
EmptyDict == [k \in {} |-> 0]

\* dict.update: the keys of b win
DictUpdate(a, b) ==
    [k \in DOMAIN a \cup DOMAIN b |-> IF k \in DOMAIN b THEN b[k] ELSE a[k]]

\* bool(d.get(k)) for values that are strings, lists or dicts
Truthy(d, k) == k \in DOMAIN d /\ DOMAIN d[k] # {}

\* s.split(".")[0]
RECURSIVE SplitFirst(_)
SplitFirst(s) ==
    IF s = <<>> \/ Head(s) = "." THEN <<>>
    ELSE <<Head(s)>> \o SplitFirst(Tail(s))

\* s.startswith(p)
StartsWith(s, p) == Len(s) >= Len(p) /\ SubSeq(s, 1, Len(p)) = p

\* s.strip()
RECURSIVE LStrip(_)
LStrip(s) == IF s # <<>> /\ Head(s) = " " THEN LStrip(Tail(s)) ELSE s

RECURSIVE RStrip(_)
RStrip(s) ==
    IF s # <<>> /\ s[Len(s)] = " " THEN RStrip(SubSeq(s, 1, Len(s) - 1)) ELSE s

Strip(s) == RStrip(LStrip(s))

\* json.dumps(v, ensure_ascii=False): the serialised text of v
JsonDumps(v) == [json |-> v]

(***************************************************************************)
(* Configuration and catalog                                               *)
(***************************************************************************)
BRIDGE_API_KEY == "your-secure-key-here"

TOOLS == <<"get_home_state", "control_device", "control_climate",
           "execute_scene", "call_service", "get_history">>

CatalogNames == { TOOLS[i] : i \in 1..Len(TOOLS) }

DefaultHours == 24

(***************************************************************************)
(* The home-automation backend as execute_tool sees it                     *)
(***************************************************************************)
Outcomes == {"ok", "http_error", "network_error"}

\* a backend decides the outcome of the i-th REST call of an invocation
Backends == [1..MaxRestCalls -> Outcomes]

CLIMATE == <<"c", "l", "i", "m", "a", "t", "e">>
SCENE == <<"s", "c", "e", "n", "e">>

LightA == <<"l", ".", "a">>
LnB == <<"l", "n", ".", "b">>
ClimateT == <<"c", "l", "i", "m", "a", "t", "e", ".", "t">>
SceneS == <<"s", "c", "e", "n", "e", ".", "s">>
NoDot == <<"x">>

StateOf(entity_id) == [entity_id |-> entity_id, state |-> "on"]

\* body of a successful GET /api/states
AllStates == <<StateOf(LightA), StateOf(LnB), StateOf(ClimateT)>>

(***************************************************************************)
(* execute_tool                                                            *)
(***************************************************************************)
NoExc == [type |-> "none", msg |-> <<>>]
KeyError(k) == [type |-> "KeyError", msg |-> <<"'", k, "'">>]
ConnectError == [type |-> "ConnectError", msg |-> <<"All connection attempts failed">>]
HTTPStatusError == [type |-> "HTTPStatusError", msg |-> <<"Server error '500'">>]

\* how a piece of code ended: by return (value) or by an exception (exc),
\* after issuing the REST calls in calls
Returned(calls, value) ==
    [raised |-> FALSE, calls |-> calls, value |-> value, exc |-> NoExc]
Raised(calls, exc) ==
    [raised |-> TRUE, calls |-> calls, value |-> EmptyDict, exc |-> exc]

\* one captured call of http_client
HttpCall(method, url, json, params, outcome) ==
    [method |-> method, url |-> url, json |-> json, params |-> params,
     outcome |-> outcome]

StatesUrl == [api |-> "states"]
StateUrl(entity_id) == [api |-> "states", entity_id |-> entity_id]
ServiceUrl(domain, service) ==
    [api |-> "services", domain |-> domain, service |-> service]
HistoryUrl(hours) == [api |-> "history", period |-> [now_minus_hours |-> hours]]

\* await http_client.get/post(...): raises when the request cannot be made
SendExc(call) == IF call.outcome = "network_error" THEN ConnectError ELSE NoExc

\* response.raise_for_status()
RaiseForStatus(call) ==
    IF call.outcome = "http_error" THEN HTTPStatusError ELSE NoExc

\* the request followed by raise_for_status()
SendChecked(call) ==
    IF SendExc(call) # NoExc THEN SendExc(call) ELSE RaiseForStatus(call)

\* lines 204-210: one state query per identifier
RECURSIVE GetStatesLoop(_, _, _, _)
GetStatesLoop(ids, backend, calls, states) ==
    IF ids = <<>> THEN Returned(calls, [states |-> states])
    ELSE LET call == HttpCall("GET", StateUrl(Head(ids)), EmptyDict, EmptyDict,
                              backend[Len(calls) + 1])
         IN  IF SendChecked(call) # NoExc
             THEN Raised(Append(calls, call), SendChecked(call))
             ELSE GetStatesLoop(Tail(ids), backend, Append(calls, call),
                                Append(states, StateOf(Head(ids))))

\* variant: the identifier is matched against the domain without the dot
FilterDomain_NoDot(states, domain) ==
    SelectSeq(states, LAMBDA s : StartsWith(s.entity_id, domain))

\* line 220: the entities of the snapshot that the domain filter keeps
FilterDomain(states, domain) ==
    SelectSeq(states, LAMBDA s : StartsWith(s.entity_id, domain \o <<".">>))

GetHomeState(inp, backend) ==
    IF Truthy(inp, "entity_ids")
    THEN GetStatesLoop(inp.entity_ids, backend, <<>>, <<>>)
    ELSE LET call == HttpCall("GET", StatesUrl, EmptyDict, EmptyDict, backend[1])
         IN  IF SendChecked(call) # NoExc
             THEN Raised(<<call>>, SendChecked(call))
             ELSE IF Truthy(inp, "domain")
             THEN Returned(<<call>>,
                           [states |-> FilterDomain(AllStates, inp.domain)])
             ELSE Returned(<<call>>, [states |-> AllStates])

ControlDevice(inp, backend) ==
    IF "entity_id" \notin DOMAIN inp THEN Raised(<<>>, KeyError("entity_id"))
    ELSE IF "action" \notin DOMAIN inp THEN Raised(<<>>, KeyError("action"))
    ELSE LET entity_id == inp.entity_id
             action == inp.action
             domain == SplitFirst(entity_id)
             data == IF Truthy(inp, "attributes")
                     THEN DictUpdate([entity_id |-> entity_id], inp.attributes)
                     ELSE [entity_id |-> entity_id]
             call == HttpCall("POST", ServiceUrl(domain, action), data,
                              EmptyDict, backend[1])
         IN  IF SendChecked(call) # NoExc
             THEN Raised(<<call>>, SendChecked(call))
             ELSE Returned(<<call>>, [success |-> TRUE, action |-> action,
                                      entity |-> entity_id])

\* variant: set_temperature is called whether or not a temperature was given
ControlClimate_AlwaysTemp(inp, backend) ==
    IF "entity_id" \notin DOMAIN inp THEN Raised(<<>>, KeyError("entity_id"))
    ELSE LET entity_id == inp.entity_id
             data == IF "temperature" \in DOMAIN inp
                     THEN [entity_id |-> entity_id,
                           temperature |-> inp.temperature]
                     ELSE [entity_id |-> entity_id]
             mode_call == HttpCall("POST", ServiceUrl(CLIMATE, "set_hvac_mode"),
                                   [entity_id |-> entity_id,
                                    hvac_mode |-> inp.hvac_mode],
                                   EmptyDict, backend[1])
             mode_calls == IF "hvac_mode" \in DOMAIN inp
                           THEN <<mode_call>> ELSE <<>>
             temp_call == HttpCall("POST",
                                   ServiceUrl(CLIMATE, "set_temperature"),
                                   data, EmptyDict,
                                   backend[Len(mode_calls) + 1])
             ok == [success |-> TRUE, entity |-> entity_id]
         IN  IF mode_calls # <<>> /\ SendExc(mode_call) # NoExc
             THEN Raised(mode_calls, SendExc(mode_call))
             ELSE IF SendChecked(temp_call) # NoExc
             THEN Raised(Append(mode_calls, temp_call), SendChecked(temp_call))
             ELSE Returned(Append(mode_calls, temp_call), ok)

\* variant: the temperature is sent first, the mode afterwards
ControlClimate_TempFirst(inp, backend) ==
    IF "entity_id" \notin DOMAIN inp THEN Raised(<<>>, KeyError("entity_id"))
    ELSE LET entity_id == inp.entity_id
             temp_call == HttpCall("POST",
                                   ServiceUrl(CLIMATE, "set_temperature"),
                                   [entity_id |-> entity_id,
                                    temperature |-> inp.temperature],
                                   EmptyDict, backend[1])
             temp_calls == IF "temperature" \in DOMAIN inp
                           THEN <<temp_call>> ELSE <<>>
             mode_call == HttpCall("POST", ServiceUrl(CLIMATE, "set_hvac_mode"),
                                   [entity_id |-> entity_id,
                                    hvac_mode |-> inp.hvac_mode],
                                   EmptyDict, backend[Len(temp_calls) + 1])
             ok == [success |-> TRUE, entity |-> entity_id]
         IN  IF temp_calls # <<>> /\ SendChecked(temp_call) # NoExc
             THEN Raised(temp_calls, SendChecked(temp_call))
             ELSE IF "hvac_mode" \in DOMAIN inp
             THEN IF SendExc(mode_call) # NoExc
                  THEN Raised(Append(temp_calls, mode_call), SendExc(mode_call))
                  ELSE Returned(Append(temp_calls, mode_call), ok)
             ELSE Returned(temp_calls, ok)

ControlClimate(inp, backend) ==
    IF "entity_id" \notin DOMAIN inp THEN Raised(<<>>, KeyError("entity_id"))
    ELSE LET entity_id == inp.entity_id
             data == IF "temperature" \in DOMAIN inp
                     THEN [entity_id |-> entity_id,
                           temperature |-> inp.temperature]
                     ELSE [entity_id |-> entity_id]
             mode_call == HttpCall("POST", ServiceUrl(CLIMATE, "set_hvac_mode"),
                                   [entity_id |-> entity_id,
                                    hvac_mode |-> inp.hvac_mode],
                                   EmptyDict, backend[1])
             \* line 256: awaited, its status is not inspected
             mode_calls == IF "hvac_mode" \in DOMAIN inp
                           THEN <<mode_call>> ELSE <<>>
             temp_call == HttpCall("POST",
                                   ServiceUrl(CLIMATE, "set_temperature"),
                                   data, EmptyDict,
                                   backend[Len(mode_calls) + 1])
             ok == [success |-> TRUE, entity |-> entity_id]
         IN  IF mode_calls # <<>> /\ SendExc(mode_call) # NoExc
             THEN Raised(mode_calls, SendExc(mode_call))
             ELSE IF "temperature" \in DOMAIN inp
             THEN IF SendChecked(temp_call) # NoExc
                  THEN Raised(Append(mode_calls, temp_call),
                              SendChecked(temp_call))
                  ELSE Returned(Append(mode_calls, temp_call), ok)
             ELSE Returned(mode_calls, ok)

ExecuteScene(inp, backend) ==
    IF "scene_id" \notin DOMAIN inp THEN Raised(<<>>, KeyError("scene_id"))
    ELSE LET scene_id == inp.scene_id
             call == HttpCall("POST", ServiceUrl(SCENE, "turn_on"),
                              [entity_id |-> scene_id], EmptyDict, backend[1])
         IN  IF SendChecked(call) # NoExc
             THEN Raised(<<call>>, SendChecked(call))
             ELSE Returned(<<call>>, [success |-> TRUE, scene |-> scene_id])

\* variant: entity_id is copied whenever the key is present
CallService_KeyPresence(inp, backend) ==
    IF "domain" \notin DOMAIN inp THEN Raised(<<>>, KeyError("domain"))
    ELSE IF "service" \notin DOMAIN inp THEN Raised(<<>>, KeyError("service"))
    ELSE LET d1 == IF "entity_id" \in DOMAIN inp
                   THEN [entity_id |-> inp.entity_id] ELSE EmptyDict
             data == IF Truthy(inp, "data")
                     THEN DictUpdate(d1, inp.data) ELSE d1
             call == HttpCall("POST", ServiceUrl(inp.domain, inp.service),
                              data, EmptyDict, backend[1])
         IN  IF SendChecked(call) # NoExc
             THEN Raised(<<call>>, SendChecked(call))
             ELSE Returned(<<call>>, [success |-> TRUE])

CallService(inp, backend) ==
    IF "domain" \notin DOMAIN inp THEN Raised(<<>>, KeyError("domain"))
    ELSE IF "service" \notin DOMAIN inp THEN Raised(<<>>, KeyError("service"))
    ELSE LET d1 == IF Truthy(inp, "entity_id")
                   THEN [entity_id |-> inp.entity_id] ELSE EmptyDict
             data == IF Truthy(inp, "data")
                     THEN DictUpdate(d1, inp.data) ELSE d1
             call == HttpCall("POST", ServiceUrl(inp.domain, inp.service),
                              data, EmptyDict, backend[1])
         IN  IF SendChecked(call) # NoExc
             THEN Raised(<<call>>, SendChecked(call))
             ELSE Returned(<<call>>, [success |-> TRUE])

\* lines 298-307: one history query per identifier
RECURSIVE GetHistoryLoop(_, _, _, _, _)
GetHistoryLoop(ids, hours, backend, calls, histories) ==
    IF ids = <<>> THEN Returned(calls, [histories |-> histories])
    ELSE LET call == HttpCall("GET", HistoryUrl(hours), EmptyDict,
                              [filter_entity_id |-> Head(ids)],
                              backend[Len(calls) + 1])
         IN  IF SendChecked(call) # NoExc
             THEN Raised(Append(calls, call), SendChecked(call))
             ELSE GetHistoryLoop(Tail(ids), hours, backend, Append(calls, call),
                                 Append(histories,
                                        [entity_id |-> Head(ids),
                                         history |-> <<StateOf(Head(ids))>>]))

GetHistory(inp, backend) ==
    IF "entity_ids" \notin DOMAIN inp THEN Raised(<<>>, KeyError("entity_ids"))
    ELSE GetHistoryLoop(inp.entity_ids,
                        IF "hours" \in DOMAIN inp THEN inp.hours
                        ELSE DefaultHours,
                        backend, <<>>, <<>>)

\* variant: the message does not say which tool was asked for
UnknownTool_Generic(name) ==
    Returned(<<>>, [error |-> <<"Tool desconhecido">>])

\* lines 311-312
UnknownTool(name) ==
    Returned(<<>>, [error |-> <<"Tool desconhecido: ", name>>])

\* the body of the try block, lines 201-312
ToolBody(name, inp, backend) ==
    CASE name = "get_home_state" -> GetHomeState(inp, backend)
      [] name = "control_device" -> ControlDevice(inp, backend)
      [] name = "control_climate" -> ControlClimate(inp, backend)
      [] name = "execute_scene" -> ExecuteScene(inp, backend)
      [] name = "call_service" -> CallService(inp, backend)
      [] name = "get_history" -> GetHistory(inp, backend)
      [] OTHER -> UnknownTool(name)

\* variant: no except clause, the exception leaves execute_tool
execute_tool_NoCatch(name, inp, backend) == ToolBody(name, inp, backend)

\* lines 314-316: except Exception
execute_tool(name, inp, backend) ==
    LET r == ToolBody(name, inp, backend)
    IN  IF r.raised THEN Returned(r.calls, [error |-> r.exc.msg]) ELSE r

(***************************************************************************)
(* The LLM as process_command_with_claude sees it                          *)
(***************************************************************************)
TextBlock(t) == [type |-> "text", text |-> t]
ToolUseBlock(id, name, inp) ==
    [type |-> "tool_use", id |-> id, name |-> name, input |-> inp]

NoResponse == [stop_reason |-> "none", content |-> <<>>]

APIError == [type |-> "APIError", msg |-> <<"Connection error.">>]

TextA == <<" ", "a", " ">>
TextB == <<"b", " ">>

\* tool requests the modelled LLM makes (the identifier is stamped per reply)
UseScene == ToolUseBlock(<<0, 0>>, "execute_scene", [scene_id |-> SceneS])
UseUnknown == ToolUseBlock(<<0, 0>>, "open_garage", EmptyDict)
UseDeviceNoEntity ==
    ToolUseBlock(<<0, 0>>, "control_device", [action |-> "turn_on"])
UseClimate ==
    ToolUseBlock(<<0, 0>>, "control_climate",
                 [entity_id |-> ClimateT, hvac_mode |-> "heat",
                  temperature |-> 21])

\* replies with stop reason tool_use: the API sends at least one tool request
ToolUseContents ==
    { <<UseScene>>,
      <<TextBlock(TextA), UseUnknown, UseDeviceNoEntity>>,
      <<UseClimate>>,
      <<UseDeviceNoEntity, TextBlock(TextB), UseScene>> }

\* replies with stop reason end_turn
EndTurnContents ==
    { <<>>, <<TextBlock(TextA)>>, <<TextBlock(TextA), TextBlock(TextB)>>,
      <<TextBlock(TextB), TextBlock(TextA)>> }

\* replies cut at max_tokens may carry tool requests
MaxTokensContents ==
    { <<TextBlock(TextB)>>, <<TextBlock(TextA), UseScene>>,
      <<UseScene, TextBlock(TextB)>> }

\* the n-th reply gives its tool requests identifiers of its own
Stamp(content, n) ==
    [i \in 1..Len(content) |->
        IF content[i].type = "tool_use"
        THEN ToolUseBlock(<<n, i>>, content[i].name, content[i].input)
        ELSE content[i]]

Replies(n) ==
    { [stop_reason |-> "tool_use", content |-> Stamp(c, n)] :
          c \in ToolUseContents }
    \cup { [stop_reason |-> "end_turn", content |-> Stamp(c, n)] :
          c \in EndTurnContents }
    \cup { [stop_reason |-> "max_tokens", content |-> Stamp(c, n)] :
          c \in MaxTokensContents }

(***************************************************************************)
(* process_command_with_claude and process_alexa_command                   *)
(***************************************************************************)
ApiKeys == {BRIDGE_API_KEY, "wrong-key", "None"}
Commands == {"apague a luz da sala"}
Contexts == {EmptyDict, [room |-> "sala"]}

NoRequest == [x_api_key |-> "None", command |-> "", context |-> EmptyDict]
NoReturn == Returned(<<>>, EmptyDict)
NoHttpResponse == [status |-> 0]

\* lines 386-390
UserMessage(command, context) ==
    IF DOMAIN context # {}
    THEN <<"O usuario disse via Alexa: '", command, "'",
           "\n\nContexto adicional: ", JsonDumps(context)>>
    ELSE <<"O usuario disse via Alexa: '", command, "'">>

\* lines 399-402
FirstMessages(um) == <<[role |-> "user", content |-> um]>>

\* variant: the tool results are placed before the assistant turn
NextMessages_ResultsFirst(um, resp, results) ==
    <<[role |-> "user", content |-> um],
      [role |-> "user", content |-> results],
      [role |-> "assistant", content |-> resp.content]>>

\* lines 434-438
NextMessages(um, resp, results) ==
    <<[role |-> "user", content |-> um],
      [role |-> "assistant", content |-> resp.content],
      [role |-> "user", content |-> results]>>

\* variant: the loop runs while the response holds a tool request
LoopCondition_HasToolUse(resp) ==
    \E i \in 1..Len(resp.content) : resp.content[i].type = "tool_use"

\* variant: the loop runs until the model ends its turn
LoopCondition_NotEndTurn(resp) == resp.stop_reason # "end_turn"

\* line 408
LoopCondition(resp) == resp.stop_reason = "tool_use"

\* variant: every entry is filed under the first fragment of the response
ToolResultEntry_FirstId(block, result) ==
    [type |-> "tool_result", tool_use_id |-> <<block.id[1], 1>>,
     content |-> JsonDumps(result)]

\* lines 422-426
ToolResultEntry(block, result) ==
    [type |-> "tool_result", tool_use_id |-> block.id,
     content |-> JsonDumps(result)]

\* lines 442-444
RECURSIVE ConcatTexts(_)
ConcatTexts(content) ==
    IF content = <<>> THEN <<>>
    ELSE (IF "text" \in DOMAIN Head(content) THEN Head(content).text ELSE <<>>)
         \o ConcatTexts(Tail(content))

\* variant: the answer is returned without strip()
FinalText_NoStrip(content) == ConcatTexts(content)

\* lines 442-447
FinalText(content) == Strip(ConcatTexts(content))

\* line 451: the text returned by the except clause
Apology(exc) ==
    <<"Desculpe, tive um problema ao processar seu pedido: ">> \o exc.msg

\* variant: should_end_session is left at the default of the response model
AlexaResponse_DefaultSession(text) ==
    [status |-> 200,
     body |-> [speech |-> text, should_end_session |-> FALSE,
               card_title |-> "Casa Inteligente", card_content |-> text]]

\* lines 477-482
AlexaResponse(text) ==
    [status |-> 200,
     body |-> [speech |-> text, should_end_session |-> TRUE,
               card_title |-> "Casa Inteligente", card_content |-> text]]

\* line 469
Unauthorized == [status |-> 401, detail |-> "Unauthorized"]

\* a request in flight to the LLM: what messages.create was given, and when
NoCall == [messages |-> <<>>, system |-> <<>>, tools |-> <<>>, at |-> 0]

\* the locals of a handler that has not received its request
IdleHandler ==
    [pc |-> "listening", request |-> NoRequest, user_message |-> <<>>,
     response |-> NoResponse, block_idx |-> 0, tool_results |-> <<>>,
     pending |-> NoReturn, sent |-> NoCall, response_text |-> <<>>,
     http_response |-> NoHttpResponse, llm_calls |-> <<>>, executed |-> <<>>]

\* the requests the server process handles
Reqs == {1, 2}

ServerIdle ==
    /\ handlers = [r \in Reqs |-> IdleHandler]
    /\ thread = 0
    /\ now = 0

Init ==
    /\ ServerIdle
    /\ pc = "listening"
    /\ request = NoRequest
    /\ user_message = <<>>
    /\ response = NoResponse
    /\ block_idx = 0
    /\ tool_results = <<>>
    /\ tool_name = ""
    /\ tool_input = EmptyDict
    /\ tool_return = NoReturn
    /\ response_text = <<>>
    /\ http_response = NoHttpResponse
    /\ llm_calls = <<>>
    /\ rest_calls = <<>>
    /\ executed = <<>>

\* variant: a request without the header is let through
Authorized_MissingOk(key) == key = BRIDGE_API_KEY \/ key = "None"

\* line 468
Authorized(key) == key = BRIDGE_API_KEY

\* lines 458-475: the API key check, then the entry of
\* process_command_with_claude up to the first messages.create
process_alexa_command ==
    /\ pc = "listening"
    /\ UNCHANGED server
    /\ \E key \in ApiKeys, command \in Commands, context \in Contexts :
          /\ request' = [x_api_key |-> key, command |-> command,
                         context |-> context]
          /\ IF ~Authorized(key)
             THEN /\ http_response' = Unauthorized
                  /\ pc' = "done"
                  /\ UNCHANGED user_message
             ELSE /\ user_message' = UserMessage(command, context)
                  /\ pc' = "first_call"
                  /\ UNCHANGED http_response
    /\ UNCHANGED <<response, block_idx, tool_results, tool_name, tool_input,
                   tool_return, response_text, llm_calls, rest_calls, executed>>

\* variant: the exception is logged and the loop goes on
OnException_Continue(exc) == [pc |-> "while", text |-> Apology(exc)]

\* lines 449-451: where an exception raised inside the try block leads
OnException(exc) == [pc |-> "return", text |-> Apology(exc)]

\* one messages.create call: it raises, or the LLM replies
CreateMessage(messages) ==
    /\ Len(llm_calls) < MaxLLMCalls
    /\ \/ /\ llm_calls' = Append(llm_calls,
                                 [messages |-> messages, ok |-> FALSE,
                                  reply |-> NoResponse])
          /\ response_text' = OnException(APIError).text
          /\ pc' = OnException(APIError).pc
          /\ UNCHANGED response
       \/ \E r \in Replies(Len(llm_calls) + 1) :
             /\ llm_calls' = Append(llm_calls,
                                    [messages |-> messages, ok |-> TRUE,
                                     reply |-> r])
             /\ response' = r
             /\ pc' = "while"
             /\ UNCHANGED response_text

\* lines 394-403
CallClaudeFirst ==
    /\ pc = "first_call"
    /\ UNCHANGED server
    /\ CreateMessage(FirstMessages(user_message))
    /\ UNCHANGED <<request, user_message, block_idx, tool_results, tool_name,
                   tool_input, tool_return, http_response, rest_calls,
                   executed>>

\* lines 408-410
WhileTest ==
    /\ pc = "while"
    /\ UNCHANGED server
    /\ IF LoopCondition(response)
       THEN /\ tool_results' = <<>>
            /\ block_idx' = 1
            /\ pc' = "for"
       ELSE /\ pc' = "extract"
            /\ UNCHANGED <<tool_results, block_idx>>
    /\ UNCHANGED <<request, user_message, response, tool_name, tool_input,
                   tool_return, response_text, http_response, llm_calls,
                   rest_calls, executed>>

\* lines 412-426: one iteration of the for loop over response.content
ForBlock ==
    /\ pc = "for"
    /\ UNCHANGED server
    /\ block_idx <= Len(response.content)
    /\ LET block == response.content[block_idx]
       IN  IF block.type = "tool_use"
           THEN \E backend \in Backends :
                  LET r == execute_tool(block.name, block.input, backend)
                  IN  /\ tool_name' = block.name
                      /\ tool_input' = block.input
                      /\ tool_return' = r
                      /\ rest_calls' = rest_calls \o r.calls
                      /\ executed' = Append(executed,
                                            [id |-> block.id,
                                             name |-> block.name,
                                             input |-> block.input,
                                             ret |-> r])
                      /\ IF r.raised
                         THEN /\ response_text' = OnException(r.exc).text
                              /\ pc' = OnException(r.exc).pc
                              /\ UNCHANGED <<tool_results, block_idx>>
                         ELSE /\ tool_results' =
                                    Append(tool_results,
                                           ToolResultEntry(block, r.value))
                              /\ block_idx' = block_idx + 1
                              /\ UNCHANGED <<response_text, pc>>
           ELSE /\ block_idx' = block_idx + 1
                /\ UNCHANGED <<tool_results, tool_name, tool_input, tool_return,
                               rest_calls, executed, response_text, pc>>
    /\ UNCHANGED <<request, user_message, response, http_response, llm_calls>>

\* lines 429-439
CallClaudeNext ==
    /\ pc = "for"
    /\ UNCHANGED server
    /\ block_idx > Len(response.content)
    /\ CreateMessage(NextMessages(user_message, response, tool_results))
    /\ UNCHANGED <<request, user_message, block_idx, tool_results, tool_name,
                   tool_input, tool_return, http_response, rest_calls,
                   executed>>

\* lines 441-447
ExtractFinal ==
    /\ pc = "extract"
    /\ UNCHANGED server
    /\ response_text' = FinalText(response.content)
    /\ pc' = "return"
    /\ UNCHANGED <<request, user_message, response, block_idx, tool_results,
                   tool_name, tool_input, tool_return, http_response,
                   llm_calls, rest_calls, executed>>

\* lines 477-482
ReturnResponse ==
    /\ pc = "return"
    /\ UNCHANGED server
    /\ http_response' = AlexaResponse(response_text)
    /\ pc' = "done"
    /\ UNCHANGED <<request, user_message, response, block_idx, tool_results,
                   tool_name, tool_input, tool_return, response_text,
                   llm_calls, rest_calls, executed>>

Next ==
    \/ process_alexa_command
    \/ CallClaudeFirst
    \/ WhileTest
    \/ ForBlock
    \/ CallClaudeNext
    \/ ExtractFinal
    \/ ReturnResponse

Spec == Init /\ [][Next]_vars

(***************************************************************************)
(* execute_tool called on its own, for every tool name and input           *)
(***************************************************************************)
OptField(k, V) == {EmptyDict} \cup { [f \in {k} |-> v] : v \in V }

IdLists == {<<>>, <<LightA>>, <<LightA, ClimateT>>}

HomeStateInputs ==
    { DictUpdate(a, b) : a \in OptField("entity_ids", IdLists),
                         b \in OptField("domain",
                                        {<<"l">>, <<"l", "n">>, <<>>}) }

DeviceInputs ==
    { DictUpdate(DictUpdate(a, b), c) :
          a \in OptField("entity_id", {LightA, NoDot}),
          b \in OptField("action", {"turn_on"}),
          c \in OptField("attributes",
                         {EmptyDict, [brightness |-> 5], [entity_id |-> LnB]}) }

ClimateInputs ==
    { DictUpdate(DictUpdate(a, b), DictUpdate(c, d)) :
          a \in OptField("entity_id", {ClimateT}),
          b \in OptField("temperature", {21}),
          c \in OptField("hvac_mode", {"heat"}),
          d \in OptField("fan_mode", {"auto"}) }

SceneInputs == OptField("scene_id", {SceneS})

ServiceInputs ==
    { DictUpdate(DictUpdate(a, b), DictUpdate(c, d)) :
          a \in OptField("domain", {<<"l">>}),
          b \in OptField("service", {"toggle"}),
          c \in OptField("entity_id", {LightA, <<>>}),
          d \in OptField("data", {EmptyDict, [transition |-> 2]}) }

HistoryInputs ==
    { DictUpdate(a, b) : a \in OptField("entity_ids", IdLists),
                         b \in OptField("hours", {1}) }

UnknownNames == {"open_garage", "get_home_states", ""}

ToolCalls ==
    { [name |-> "get_home_state", input |-> i] : i \in HomeStateInputs }
    \cup { [name |-> "control_device", input |-> i] : i \in DeviceInputs }
    \cup { [name |-> "control_climate", input |-> i] : i \in ClimateInputs }
    \cup { [name |-> "execute_scene", input |-> i] : i \in SceneInputs }
    \cup { [name |-> "call_service", input |-> i] : i \in ServiceInputs }
    \cup { [name |-> "get_history", input |-> i] : i \in HistoryInputs }
    \cup { [name |-> n, input |-> i] :
               n \in UnknownNames, i \in OptField("entity_id", {LightA}) }

InitTool ==
    /\ ServerIdle
    /\ pc = "tool_call"
    /\ \E c \in ToolCalls : tool_name = c.name /\ tool_input = c.input
    /\ request = NoRequest
    /\ user_message = <<>>
    /\ response = NoResponse
    /\ block_idx = 0
    /\ tool_results = <<>>
    /\ tool_return = NoReturn
    /\ response_text = <<>>
    /\ http_response = NoHttpResponse
    /\ llm_calls = <<>>
    /\ rest_calls = <<>>
    /\ executed = <<>>

\* lines 192-316: one activation of execute_tool
ExecuteToolDirect ==
    /\ pc = "tool_call"
    /\ UNCHANGED server
    /\ \E backend \in Backends :
          LET r == execute_tool(tool_name, tool_input, backend)
          IN  /\ tool_return' = r
              /\ rest_calls' = r.calls
              /\ executed' = <<[id |-> <<0, 0>>, name |-> tool_name,
                                input |-> tool_input, ret |-> r]>>
    /\ pc' = "tool_returned"
    /\ UNCHANGED <<request, user_message, response, block_idx, tool_results,
                   tool_name, tool_input, response_text, http_response,
                   llm_calls>>

NextTool == ExecuteToolDirect

SpecTool == InitTool /\ [][NextTool]_vars

(***************************************************************************)
(* Properties                                                              *)
(***************************************************************************)
\* the tool requests of a response, in order
ToolUses(content) == SelectSeq(content, LAMBDA b : b.type = "tool_use")

UseIds(content) ==
    [i \in 1..Len(ToolUses(content)) |-> ToolUses(content)[i].id]

ResultIds(results) == [i \in 1..Len(results) |-> results[i].tool_use_id]

\* the activations of execute_tool for the invocation id
ExecutionsOf(id) == { i \in 1..Len(executed) : executed[i].id = id }

\* the tool-results turn sent with the k-th LLM call (k >= 2)
ResultsSent(k) == llm_calls[k].messages[Len(llm_calls[k].messages)].content

IsErrorResult(value) == "error" \in DOMAIN value /\ value.error # <<>>

\* C1: whenever an LLM call follows a response with stop reason tool_use, its
\* tool-results turn has one entry per tool request of that response, with
\* the same identifiers in the same order, each request was executed exactly
\* once and the entry carries the output of that execution; and at the point
\* where the next LLM call is issued every request of the current response
\* has its result.
C1_ResultsBeforeNextCall ==
    /\ \A k \in 2..Len(llm_calls) :
          LET prev == llm_calls[k - 1].reply
          IN  /\ llm_calls[k - 1].ok
              /\ prev.stop_reason = "tool_use"
              /\ ResultIds(ResultsSent(k)) = UseIds(prev.content)
              /\ \A j \in 1..Len(ResultsSent(k)) :
                    /\ Cardinality(ExecutionsOf(ResultsSent(k)[j].tool_use_id)) = 1
                    /\ \E i \in ExecutionsOf(ResultsSent(k)[j].tool_use_id) :
                          ResultsSent(k)[j].content
                              = JsonDumps(executed[i].ret.value)
    /\ (pc = "for" /\ block_idx > Len(response.content))
          => ResultIds(tool_results) = UseIds(response.content)

\* C1 witness: a second LLM call was issued after a response with two tool
\* requests
C1_Witness ==
    /\ Len(llm_calls) >= 2
    /\ Len(ToolUses(llm_calls[1].reply.content)) >= 2
    /\ Len(ResultsSent(2)) >= 2

\* C2 (as claimed): the (k+1)-th LLM call carries 1 + 2k turns and extends the
\* turn list of the k-th call
C2_HistoryAppendOnly ==
    \A k \in 1..(Len(llm_calls) - 1) :
        /\ Len(llm_calls[k + 1].messages) = 1 + 2 * k
        /\ SubSeq(llm_calls[k + 1].messages, 1, Len(llm_calls[k].messages))
               = llm_calls[k].messages

\* C3 (as claimed): an invocation one of whose REST calls failed returns an
\* error result, never a success result
C3_FailedCallGivesError ==
    pc = "tool_returned" =>
        ((\E i \in 1..Len(tool_return.calls) :
              tool_return.calls[i].outcome # "ok")
            => /\ IsErrorResult(tool_return.value)
               /\ "success" \notin DOMAIN tool_return.value)

\* the request ended with the apology of the except clause
Apologised ==
    /\ response_text # <<>>
    /\ Head(response_text)
           = "Desculpe, tive um problema ao processar seu pedido: "

\* C4: no activation of execute_tool raises; after a failed invocation the
\* remaining requests of the response are executed, the request is answered
\* with the apology only when an LLM call failed, and the next LLM call
\* carries the error text as the output of the failed invocation.
C4_ToolFailureContained ==
    /\ ~tool_return.raised
    /\ \A i \in 1..Len(executed) : ~executed[i].ret.raised
    /\ Apologised => (llm_calls # <<>> /\ ~llm_calls[Len(llm_calls)].ok)
    /\ (pc = "for" /\ block_idx > Len(response.content))
          => \A j \in 1..Len(ToolUses(response.content)) :
                ExecutionsOf(ToolUses(response.content)[j].id) # {}
    /\ \A k \in 2..Len(llm_calls) :
          \A j \in 1..Len(ToolUses(llm_calls[k - 1].reply.content)) :
             LET id == ToolUses(llm_calls[k - 1].reply.content)[j].id
             IN  /\ ExecutionsOf(id) # {}
                 /\ \A i \in ExecutionsOf(id) :
                       \E e \in 1..Len(ResultsSent(k)) :
                          /\ ResultsSent(k)[e].tool_use_id = id
                          /\ ResultsSent(k)[e].content
                                 = JsonDumps(executed[i].ret.value)

\* C4 witness: the first of several tool requests failed, the later ones were
\* executed and the next LLM call was made and answered
C4_Witness ==
    /\ Len(llm_calls) >= 2
    /\ llm_calls[2].ok
    /\ Len(executed) >= 2
    /\ executed[1].id[1] = 1
    /\ executed[2].id[1] = 1
    /\ IsErrorResult(executed[1].ret.value)
    /\ executed[2].ret.calls # <<>>

\* C5: for a tool name outside the catalog execute_tool returns (does not
\* raise) an error result whose message contains the name, and issues no
\* REST call.
C5_UnknownToolError ==
    (pc = "tool_returned" /\ tool_name \notin CatalogNames)
        => /\ ~tool_return.raised
           /\ DOMAIN tool_return.value = {"error"}
           /\ \E i \in 1..Len(tool_return.value.error) :
                 tool_return.value.error[i] = tool_name
           /\ tool_return.calls = <<>>
           /\ rest_calls = <<>>

\* C5 witness: execute_tool returned for a name outside the catalog
C5_Witness ==
    /\ pc = "tool_returned"
    /\ tool_name = "get_home_states"
    /\ tool_name \notin CatalogNames

IsModeCall(call) ==
    call.method = "POST" /\ call.url = ServiceUrl(CLIMATE, "set_hvac_mode")

IsTempCall(call) ==
    call.method = "POST" /\ call.url = ServiceUrl(CLIMATE, "set_temperature")

\* C6: in a control_climate invocation with both hvac_mode and temperature,
\* every set_temperature call is preceded in the captured call sequence by a
\* set_hvac_mode call that completed, no set_hvac_mode call follows a
\* set_temperature call, and with an entity identifier the first call issued
\* is the set_hvac_mode call.
C6_ModeBeforeTemperature ==
    (/\ pc = "tool_returned"
     /\ tool_name = "control_climate"
     /\ {"hvac_mode", "temperature"} \subseteq DOMAIN tool_input)
        => LET calls == tool_return.calls
           IN  /\ \A i \in 1..Len(calls) :
                     IsTempCall(calls[i])
                        => \E j \in 1..(i - 1) :
                              /\ IsModeCall(calls[j])
                              /\ calls[j].outcome # "network_error"
               /\ \A i \in 1..Len(calls) :
                     IsModeCall(calls[i])
                        => \A j \in 1..(i - 1) : ~IsTempCall(calls[j])
               /\ "entity_id" \in DOMAIN tool_input
                     => (calls # <<>> /\ IsModeCall(calls[1]))

\* C6 witness: both calls of such an invocation were issued
C6_Witness ==
    /\ pc = "tool_returned"
    /\ tool_name = "control_climate"
    /\ {"hvac_mode", "temperature"} \subseteq DOMAIN tool_input
    /\ Len(tool_return.calls) = 2
    /\ IsTempCall(tool_return.calls[2])

\* the tool requests of the k-th reply
RepliedUses(k) == ToolUses(llm_calls[k].reply.content)

\* C7 (as claimed): the loop ends exactly when the response holds no tool
\* request, and every tool request of every response is executed exactly once
C7_StopsIffNoToolRequests ==
    /\ pc = "extract" => ToolUses(response.content) = <<>>
    /\ pc = "for" => ToolUses(response.content) # <<>>
    /\ pc = "extract"
          => \A k \in 1..Len(llm_calls) :
                \A j \in 1..Len(RepliedUses(k)) :
                   Cardinality(ExecutionsOf(RepliedUses(k)[j].id)) = 1

\* C7 (amended): the loop ends exactly when the stop reason of the response is
\* not tool_use; the tool requests of a response with stop reason tool_use are
\* executed exactly once each before the next LLM call, those of a response
\* with another stop reason are never executed, and nothing else is executed.
C7_StopsIffNotToolUse ==
    /\ pc = "extract" => response.stop_reason # "tool_use"
    /\ pc = "for" => response.stop_reason = "tool_use"
    /\ \A k \in 1..Len(llm_calls) :
          \A j \in 1..Len(RepliedUses(k)) :
             LET n == Cardinality(ExecutionsOf(RepliedUses(k)[j].id))
             IN  IF llm_calls[k].reply.stop_reason = "tool_use"
                 THEN /\ n <= 1
                      /\ (k < Len(llm_calls)
                            \/ (pc = "for" /\ block_idx > Len(response.content)))
                           => n = 1
                 ELSE n = 0
    /\ \A i \in 1..Len(executed) :
          \E k \in 1..Len(llm_calls) :
             /\ llm_calls[k].reply.stop_reason = "tool_use"
             /\ \E j \in 1..Len(RepliedUses(k)) :
                   RepliedUses(k)[j].id = executed[i].id

\* C7 witness: after one round of tools, a response with another stop reason
\* that still holds a tool request is taken as the final answer
C7_Witness ==
    /\ pc = "extract"
    /\ ToolUses(response.content) # <<>>
    /\ executed # <<>>

\* the text fragments of content[1..n], joined
RECURSIVE JoinedText(_, _)
JoinedText(content, n) ==
    IF n = 0 THEN <<>>
    ELSE JoinedText(content, n - 1)
         \o (IF content[n].type = "text" THEN content[n].text ELSE <<>>)

\* r is s without its leading and trailing blanks
IsTrimOf(r, s) ==
    /\ r = <<>> \/ (r[1] # " " /\ r[Len(r)] # " ")
    /\ \E i \in 0..Len(s) :
          \E j \in i..Len(s) :
             /\ r = SubSeq(s, i + 1, j)
             /\ \A k \in 1..i : s[k] = " "
             /\ \A k \in (j + 1)..Len(s) : s[k] = " "

\* C8: when the first response holds no tool request there is exactly one
\* LLM call, no tool is executed, no REST call is issued, and the returned
\* text is the joined text fragments of that response without surrounding
\* blanks.
C8_NoToolsOneCall ==
    (/\ llm_calls # <<>>
     /\ llm_calls[1].ok
     /\ RepliedUses(1) = <<>>)
        => /\ Len(llm_calls) = 1
           /\ executed = <<>>
           /\ rest_calls = <<>>
           /\ pc \in {"while", "extract", "return", "done"}
           /\ pc \in {"return", "done"}
                 => IsTrimOf(response_text,
                             JoinedText(llm_calls[1].reply.content,
                                        Len(llm_calls[1].reply.content)))

\* C8 witness: such a request finished, with two text fragments whose joined
\* text had surrounding blanks
C8_Witness ==
    /\ pc = "done"
    /\ Len(llm_calls) = 1
    /\ llm_calls[1].ok
    /\ Len(llm_calls[1].reply.content) = 2
    /\ RepliedUses(1) = <<>>
    /\ response_text # JoinedText(llm_calls[1].reply.content, 2)
    /\ http_response.status = 200

\* the model asked for one tool in its first reply and for none in its second
OneToolThenNone ==
    /\ Len(llm_calls) >= 2
    /\ llm_calls[1].ok
    /\ llm_calls[2].ok
    /\ llm_calls[1].reply.stop_reason = "tool_use"
    /\ Len(RepliedUses(1)) = 1
    /\ RepliedUses(2) = <<>>

\* C9: with such a model there are exactly two LLM calls and one tool
\* execution; the first call carries the command turn alone, the second
\* carries the command turn, the assistant turn with the first reply's
\* content and one tool-results turn whose single entry has the identifier
\* of the request.
C9_OneToolTwoCalls ==
    OneToolThenNone
        => LET first == llm_calls[1].messages
               second == llm_calls[2].messages
           IN  /\ Len(llm_calls) = 2
               /\ Len(executed) = 1
               /\ Len(first) = 1
               /\ first[1].role = "user"
               /\ first[1].content[2] = request.command
               /\ Len(second) = 3
               /\ second[1] = first[1]
               /\ second[2].role = "assistant"
               /\ second[2].content = llm_calls[1].reply.content
               /\ second[3].role = "user"
               /\ Len(second[3].content) = 1
               /\ second[3].content[1].type = "tool_result"
               /\ second[3].content[1].tool_use_id = RepliedUses(1)[1].id

\* C9 witness: a request with such a model finished
C9_Witness ==
    /\ OneToolThenNone
    /\ pc = "done"
    /\ http_response.status = 200

\* some LLM call of the request failed
LLMCallFailed == \E k \in 1..Len(llm_calls) : ~llm_calls[k].ok

\* the request is being answered with a normal envelope carrying the apology
ApologyAnswer ==
    /\ pc \in {"return", "done"}
    /\ Apologised
    /\ pc = "done"
          => /\ http_response.status = 200
             /\ http_response.body.speech = response_text

\* C10: once an LLM call has failed the request is answered with the apology
\* in a normal response envelope, and from then on no LLM call, tool
\* execution or REST call is made.
C10_LLMFailureApology ==
    [][/\ LLMCallFailed' => ApologyAnswer'
       /\ LLMCallFailed
             => /\ llm_calls' = llm_calls
                /\ executed' = executed
                /\ rest_calls' = rest_calls
                /\ response_text' = response_text]_vars

\* C10 witness: the second LLM call failed after a tool was executed, and the
\* request completed
C10_Witness ==
    /\ pc = "done"
    /\ Len(llm_calls) >= 2
    /\ ~llm_calls[Len(llm_calls)].ok
    /\ executed # <<>>
    /\ http_response.status = 200

\* C11: a request whose x-api-key header is absent or differs from the
\* configured key is answered with the unauthorized signal and nothing else
\* happens for it: no LLM call, no tool execution, no REST call, no speech.
C11_UnauthorizedRejected ==
    (pc # "listening" /\ request.x_api_key # BRIDGE_API_KEY)
        => /\ pc = "done"
           /\ http_response = [status |-> 401, detail |-> "Unauthorized"]
           /\ "body" \notin DOMAIN http_response
           /\ llm_calls = <<>>
           /\ executed = <<>>
           /\ rest_calls = <<>>
           /\ user_message = <<>>
           /\ response_text = <<>>

\* C11 witness: a request without the header was rejected
C11_Witness ==
    /\ pc = "done"
    /\ request.x_api_key = "None"
    /\ http_response.status = 401

(***************************************************************************)
(* The server process: several handlers on one event loop thread           *)
(*                                                                         *)
(* A handler runs on the thread until it awaits http_client (the thread is *)
(* released) or returns.  claude_client is anthropic.Anthropic, whose      *)
(* messages.create is an ordinary call: the handler keeps the thread       *)
(* while it waits for the reply.                                           *)
(***************************************************************************)
\* cap on the messages.create calls of one handler of the server process
MaxServerCalls == 2
\* last value of the wall clock
MaxNow == 2
\* ticks of the wall clock per minute
TicksPerMinute == 2

CommandOf(r) == IF r = 1 THEN "apague a luz da sala" ELSE "ligue o ar"

\* variant: the prompt carries the time to the tick
build_system_prompt_Exact(t) ==
    <<"Voce e o assistente de casa inteligente.", "Data e hora: ",
      [tick |-> t], "SUAS CAPACIDADES", "DIRETRIZES IMPORTANTES">>

\* lines 323-373, with now.strftime('%d/%m/%Y %H:%M') at line 331
build_system_prompt(t) ==
    <<"Voce e o assistente de casa inteligente.", "Data e hora: ",
      [minute |-> t \div TicksPerMinute], "SUAS CAPACIDADES",
      "DIRETRIZES IMPORTANTES">>

\* the replies the LLM gives handler r to its n-th call
ServerReplies(r, n) ==
    { [stop_reason |-> "tool_use",
       content |-> <<ToolUseBlock(<<r, n, 1>>, UseScene.name, UseScene.input)>>],
      [stop_reason |-> "tool_use",
       content |-> <<TextBlock(TextB),
                     ToolUseBlock(<<r, n, 2>>, UseUnknown.name,
                                  UseUnknown.input)>>],
      [stop_reason |-> "end_turn", content |-> <<TextBlock(TextA)>>],
      [stop_reason |-> "max_tokens", content |-> <<TextBlock(TextB)>>] }

\* variant: tool_results is one list of the process, shared by the handlers
HandlerMessages_SharedResults(hs, r) ==
    NextMessages(hs[r].user_message, hs[r].response,
                 hs[1].tool_results \o hs[2].tool_results)

\* lines 434-438, over the locals of handler r
HandlerMessages(hs, r) ==
    NextMessages(hs[r].user_message, hs[r].response, hs[r].tool_results)

\* lines 394-398 and 429-433: the arguments of messages.create
CallArgs(messages, t) ==
    [messages |-> messages, system |-> build_system_prompt(t),
     tools |-> TOOLS, at |-> t]

InitServer ==
    /\ handlers = [r \in Reqs |-> IdleHandler]
    /\ thread = 0
    /\ now = 0
    /\ pc = "server"
    /\ request = NoRequest
    /\ user_message = <<>>
    /\ response = NoResponse
    /\ block_idx = 0
    /\ tool_results = <<>>
    /\ tool_name = ""
    /\ tool_input = EmptyDict
    /\ tool_return = NoReturn
    /\ response_text = <<>>
    /\ http_response = NoHttpResponse
    /\ llm_calls = <<>>
    /\ rest_calls = <<>>
    /\ executed = <<>>

\* the server process with a single request
InitOne ==
    /\ handlers = [r \in Reqs |->
                      IF r = 1 THEN IdleHandler
                      ELSE [IdleHandler EXCEPT !.pc = "absent"]]
    /\ thread = 0
    /\ now = 0
    /\ pc = "server"
    /\ request = NoRequest
    /\ user_message = <<>>
    /\ response = NoResponse
    /\ block_idx = 0
    /\ tool_results = <<>>
    /\ tool_name = ""
    /\ tool_input = EmptyDict
    /\ tool_return = NoReturn
    /\ response_text = <<>>
    /\ http_response = NoHttpResponse
    /\ llm_calls = <<>>
    /\ rest_calls = <<>>
    /\ executed = <<>>

\* lines 458-475: the handler is started, checks the key and runs up to the
\* first messages.create
HandlerStart(r) ==
    /\ handlers[r].pc = "listening"
    /\ thread = 0
    /\ \E key \in {BRIDGE_API_KEY, "wrong-key"} :
          LET req == [x_api_key |-> key, command |-> CommandOf(r),
                      context |-> EmptyDict]
          IN  IF ~Authorized(key)
              THEN /\ handlers' = [handlers EXCEPT ![r] =
                          [@ EXCEPT !.request = req,
                                    !.http_response = Unauthorized,
                                    !.pc = "done"]]
                   /\ thread' = 0
              ELSE /\ handlers' = [handlers EXCEPT ![r] =
                          [@ EXCEPT !.request = req,
                                    !.user_message =
                                        UserMessage(req.command, req.context),
                                    !.pc = "first_call"]]
                   /\ thread' = r
    /\ UNCHANGED <<now, single>>

\* lines 394-403: messages.create is entered; the thread stays with r
HandlerCallFirst(r) ==
    /\ handlers[r].pc = "first_call"
    /\ thread = r
    /\ Len(handlers[r].llm_calls) < MaxServerCalls
    /\ handlers' = [handlers EXCEPT ![r] =
          [@ EXCEPT !.sent = CallArgs(FirstMessages(handlers[r].user_message),
                                       now),
                    !.pc = "llm_wait"]]
    /\ UNCHANGED <<thread, now, single>>

\* lines 429-439: messages.create is entered; the thread stays with r
HandlerCallNext(r) ==
    /\ handlers[r].pc = "for"
    /\ handlers[r].block_idx > Len(handlers[r].response.content)
    /\ thread = r
    /\ Len(handlers[r].llm_calls) < MaxServerCalls
    /\ handlers' = [handlers EXCEPT ![r] =
          [@ EXCEPT !.sent = CallArgs(HandlerMessages(handlers, r), now),
                    !.pc = "llm_wait"]]
    /\ UNCHANGED <<thread, now, single>>

\* messages.create returns a reply or raises
HandlerReply(r) ==
    /\ handlers[r].pc = "llm_wait"
    /\ thread = r
    /\ LET h == handlers[r]
           n == Len(h.llm_calls) + 1
       IN  \/ handlers' = [handlers EXCEPT ![r] =
                 [@ EXCEPT !.llm_calls =
                               Append(@, [messages |-> h.sent.messages,
                                          system |-> h.sent.system,
                                          tools |-> h.sent.tools,
                                          at |-> h.sent.at,
                                          ok |-> FALSE,
                                          reply |-> NoResponse]),
                           !.sent = NoCall,
                           !.response_text = OnException(APIError).text,
                           !.pc = OnException(APIError).pc]]
           \/ \E reply \in ServerReplies(r, n) :
                 handlers' = [handlers EXCEPT ![r] =
                    [@ EXCEPT !.llm_calls =
                                  Append(@, [messages |-> h.sent.messages,
                                             system |-> h.sent.system,
                                             tools |-> h.sent.tools,
                                             at |-> h.sent.at,
                                             ok |-> TRUE,
                                             reply |-> reply]),
                              !.sent = NoCall,
                              !.response = reply,
                              !.pc = "while"]]
    /\ UNCHANGED <<thread, now, single>>

\* lines 408-410
HandlerWhile(r) ==
    /\ handlers[r].pc = "while"
    /\ thread = r
    /\ handlers' = [handlers EXCEPT ![r] =
          IF LoopCondition(@.response)
          THEN [@ EXCEPT !.tool_results = <<>>, !.block_idx = 1, !.pc = "for"]
          ELSE [@ EXCEPT !.pc = "extract"]]
    /\ UNCHANGED <<thread, now, single>>

\* what handler h looks like after execute_tool gave ret for its block
AfterTool(h, ret) ==
    LET block == h.response.content[h.block_idx]
        done == [h EXCEPT !.executed =
                              Append(@, [id |-> block.id, name |-> block.name,
                                         input |-> block.input, ret |-> ret]),
                          !.pending = NoReturn]
    IN  IF ret.raised
        THEN [done EXCEPT !.response_text = OnException(ret.exc).text,
                          !.pc = OnException(ret.exc).pc]
        ELSE [done EXCEPT !.tool_results =
                              Append(@, ToolResultEntry(block, ret.value)),
                          !.block_idx = @ + 1,
                          !.pc = "for"]

\* lines 412-420: one iteration of the for loop; execute_tool runs until its
\* first await of http_client, where the thread is released
HandlerForBlock(r) ==
    /\ handlers[r].pc = "for"
    /\ handlers[r].block_idx <= Len(handlers[r].response.content)
    /\ thread = r
    /\ LET h == handlers[r]
           block == h.response.content[h.block_idx]
       IN  IF block.type = "tool_use"
           THEN \E backend \in Backends :
                  LET ret == execute_tool(block.name, block.input, backend)
                  IN  IF ret.calls = <<>>
                      THEN /\ handlers' =
                                 [handlers EXCEPT ![r] = AfterTool(h, ret)]
                           /\ thread' = r
                      ELSE /\ handlers' = [handlers EXCEPT ![r] =
                                   [@ EXCEPT !.pending = ret,
                                             !.pc = "tool_wait"]]
                           /\ thread' = 0
           ELSE /\ handlers' = [handlers EXCEPT ![r] =
                       [@ EXCEPT !.block_idx = @ + 1]]
                /\ thread' = r
    /\ UNCHANGED <<now, single>>

\* lines 420-426: the awaited REST calls are over, the handler is resumed
HandlerToolDone(r) ==
    /\ handlers[r].pc = "tool_wait"
    /\ thread = 0
    /\ handlers' = [handlers EXCEPT ![r] = AfterTool(@, @.pending)]
    /\ thread' = r
    /\ UNCHANGED <<now, single>>

\* lines 441-447
HandlerExtract(r) ==
    /\ handlers[r].pc = "extract"
    /\ thread = r
    /\ handlers' = [handlers EXCEPT ![r] =
          [@ EXCEPT !.response_text =
                        FinalText(handlers[r].response.content),
                    !.pc = "return"]]
    /\ UNCHANGED <<thread, now, single>>

\* lines 477-482: the handler returns and gives up the thread
HandlerReturn(r) ==
    /\ handlers[r].pc = "return"
    /\ thread = r
    /\ handlers' = [handlers EXCEPT ![r] =
          [@ EXCEPT !.http_response =
                        AlexaResponse(handlers[r].response_text),
                    !.pc = "done"]]
    /\ thread' = 0
    /\ UNCHANGED <<now, single>>

\* every step handler r can take
HandlerStep(r) ==
    \/ HandlerStart(r)
    \/ HandlerCallFirst(r)
    \/ HandlerReply(r)
    \/ HandlerWhile(r)
    \/ HandlerForBlock(r)
    \/ HandlerToolDone(r)
    \/ HandlerCallNext(r)
    \/ HandlerExtract(r)
    \/ HandlerReturn(r)

\* line 326: datetime.now() moves on
Tick ==
    /\ now < MaxNow
    /\ now' = now + 1
    /\ UNCHANGED <<handlers, thread, single>>

NextServer ==
    \/ \E r \in Reqs : HandlerStart(r)
    \/ \E r \in Reqs : HandlerCallFirst(r)
    \/ \E r \in Reqs : HandlerReply(r)
    \/ \E r \in Reqs : HandlerWhile(r)
    \/ \E r \in Reqs : HandlerForBlock(r)
    \/ \E r \in Reqs : HandlerToolDone(r)
    \/ \E r \in Reqs : HandlerCallNext(r)
    \/ \E r \in Reqs : HandlerExtract(r)
    \/ \E r \in Reqs : HandlerReturn(r)

NextClock ==
    \/ NextServer
    \/ Tick

\* two concurrent requests
SpecServer == InitServer /\ [][NextServer]_vars

\* one request and the wall clock
SpecClock == InitOne /\ [][NextClock]_vars

\* one request; every call returns and the handler is resumed
SpecOneFair == InitOne /\ [][NextServer]_vars /\ WF_vars(NextServer)

\* the latest LLM call of handler r returned a reply asking for tools
HandlerAskedTools(r) ==
    /\ handlers[r].llm_calls # <<>>
    /\ handlers[r].llm_calls[Len(handlers[r].llm_calls)].ok
    /\ handlers[r].llm_calls[Len(handlers[r].llm_calls)].reply.stop_reason
           = "tool_use"

\* the latest LLM call of handler r returned a reply with another stop reason
HandlerGotFinal(r) ==
    /\ handlers[r].llm_calls # <<>>
    /\ handlers[r].llm_calls[Len(handlers[r].llm_calls)].ok
    /\ handlers[r].llm_calls[Len(handlers[r].llm_calls)].reply.stop_reason
           # "tool_use"

\* C12: when every call returns, a reply whose stop reason is not tool_use
\* leads to the response of the request; without a failed LLM call the loop
\* is left only after such a reply; and after a reply with stop reason
\* tool_use the next LLM call is always made, whatever the number of
\* iterations already done (below the cap of the model).
C12_TerminationByModel ==
    /\ [](HandlerGotFinal(1)
            => <>(/\ handlers[1].pc = "done"
                  /\ handlers[1].http_response.status = 200))
    /\ []((/\ handlers[1].pc \in {"extract", "return", "done"}
           /\ handlers[1].llm_calls # <<>>)
            => ~HandlerAskedTools(1))
    /\ \A k \in 1..(MaxServerCalls - 1) :
          []((HandlerAskedTools(1) /\ Len(handlers[1].llm_calls) = k)
               => <>(Len(handlers[1].llm_calls) = k + 1))

\* C12 witness: the model asked for tools on every reply up to the cap and
\* then stopped asking, and the request was answered
C12_Witness ==
    /\ handlers[1].pc = "done"
    /\ Len(handlers[1].llm_calls) = MaxServerCalls
    /\ HandlerGotFinal(1)
    /\ handlers[1].executed # <<>>
    /\ \A k \in 1..(MaxServerCalls - 1) :
          handlers[1].llm_calls[k].reply.stop_reason = "tool_use"

\* C13 (as claimed): while a handler waits for the reply of the LLM, another
\* handler that has a request to start or a finished REST call to resume
\* from can take a step
C13_LLMCallNonBlocking ==
    \A r \in Reqs :
       \A q \in Reqs \ {r} :
          (/\ handlers[r].pc = "llm_wait"
           /\ handlers[q].pc \in {"listening", "tool_wait"})
              => ENABLED HandlerStep(q)

\* C17 (as claimed): every LLM call of the request is given the system
\* instructions of the first call, and the catalog
C17_SystemUnchanged ==
    \A k \in 1..Len(handlers[1].llm_calls) :
        /\ handlers[1].llm_calls[k].system = handlers[1].llm_calls[1].system
        /\ handlers[1].llm_calls[k].tools = TOOLS

\* C17 (amended): every LLM call is given the catalog; the system instructions
\* of the k-th call equal those of the first call exactly when the two calls
\* are made in the same wall-clock minute.
C17_SystemPerMinute ==
    \A k \in 1..Len(handlers[1].llm_calls) :
        /\ handlers[1].llm_calls[k].tools
               = <<"get_home_state", "control_device", "control_climate",
                   "execute_scene", "call_service", "get_history">>
        /\ (handlers[1].llm_calls[k].system = handlers[1].llm_calls[1].system)
             <=> (handlers[1].llm_calls[k].at \div TicksPerMinute
                     = handlers[1].llm_calls[1].at \div TicksPerMinute)

\* C17 witness: time passed between two LLM calls of the same minute, and a
\* request finished
C17_Witness ==
    /\ handlers[1].pc = "done"
    /\ Len(handlers[1].llm_calls) >= 2
    /\ handlers[1].llm_calls[2].at > handlers[1].llm_calls[1].at
    /\ handlers[1].llm_calls[2].system = handlers[1].llm_calls[1].system

\* the tool-results turn handler r sent with its k-th LLM call (k >= 2)
HandlerResultsSent(r, k) == handlers[r].llm_calls[k].messages[3].content

\* C19: in every interleaving of two requests, each LLM call of a handler
\* carries the handler's own command, its own previous reply and one result
\* per tool request of that reply, produced by the handler's own executions;
\* and its answer is the trimmed text of its own last reply, or the apology
\* when its own LLM call failed.
C19_RequestsIsolated ==
    \A r \in Reqs :
       LET h == handlers[r]
       IN  /\ \A k \in 1..Len(h.llm_calls) :
                 /\ h.llm_calls[k].messages[1].role = "user"
                 /\ h.llm_calls[k].messages[1].content[2] = CommandOf(r)
                 /\ Len(h.llm_calls[k].messages) = IF k = 1 THEN 1 ELSE 3
           /\ \A k \in 2..Len(h.llm_calls) :
                 /\ h.llm_calls[k].messages[2].content
                       = h.llm_calls[k - 1].reply.content
                 /\ ResultIds(HandlerResultsSent(r, k))
                       = UseIds(h.llm_calls[k - 1].reply.content)
                 /\ \A j \in 1..Len(HandlerResultsSent(r, k)) :
                       /\ HandlerResultsSent(r, k)[j].tool_use_id[1] = r
                       /\ \E i \in 1..Len(h.executed) :
                             /\ h.executed[i].id
                                   = HandlerResultsSent(r, k)[j].tool_use_id
                             /\ HandlerResultsSent(r, k)[j].content
                                   = JsonDumps(h.executed[i].ret.value)
           /\ \A i \in 1..Len(h.executed) : h.executed[i].id[1] = r
           /\ (h.pc = "done" /\ h.llm_calls # <<>>)
                 => /\ h.http_response.status = 200
                    /\ h.http_response.body.speech = h.response_text
                    /\ IF h.llm_calls[Len(h.llm_calls)].ok
                       THEN IsTrimOf(h.response_text,
                                JoinedText(
                                  h.llm_calls[Len(h.llm_calls)].reply.content,
                                  Len(h.llm_calls[Len(h.llm_calls)]
                                          .reply.content)))
                       ELSE Head(h.response_text)
                              = "Desculpe, tive um problema ao processar seu pedido: "

\* C19 witness: both requests are in flight at once, each suspended in a
\* REST call after an LLM call that carried the results of its first round
C19_Witness ==
    \A r \in Reqs :
       /\ handlers[r].pc = "tool_wait"
       /\ Len(handlers[r].llm_calls) = 2
       /\ Len(HandlerResultsSent(r, 2)) = 1

\* the identifier e belongs to the domain d: it is d followed by a dot
InDomain(e, d) ==
    /\ Len(e) > Len(d)
    /\ \A i \in 1..Len(d) : e[i] = d[i]
    /\ e[Len(d) + 1] = "."

\* C14: get_home_state without a non-empty entity_ids list issues exactly one
\* GET of the full snapshot; when that succeeds it returns, in snapshot
\* order, exactly the entities whose identifier is the domain followed by a
\* dot, and the whole snapshot when no domain is given.
C14_DomainFilter ==
    (/\ pc = "tool_returned"
     /\ tool_name = "get_home_state"
     /\ ("entity_ids" \in DOMAIN tool_input => tool_input.entity_ids = <<>>))
        => /\ Len(tool_return.calls) = 1
           /\ tool_return.calls[1].method = "GET"
           /\ tool_return.calls[1].url = [api |-> "states"]
           /\ tool_return.calls[1].outcome = "ok"
                 => /\ DOMAIN tool_return.value = {"states"}
                    /\ IF "domain" \in DOMAIN tool_input
                          /\ tool_input.domain # <<>>
                       THEN tool_return.value.states
                              = SelectSeq(AllStates,
                                    LAMBDA s : InDomain(s.entity_id,
                                                        tool_input.domain))
                       ELSE tool_return.value.states = AllStates

\* C14 witness: the filter "l" kept l.a and dropped ln.b
C14_Witness ==
    /\ pc = "tool_returned"
    /\ tool_name = "get_home_state"
    /\ tool_input = [entity_ids |-> <<>>, domain |-> <<"l">>]
    /\ tool_return.value = [states |-> <<StateOf(LightA)>>]

\* C15 (as claimed): control_device with an entity identifier and an action
\* issues one POST to {domain}/{action} whose body has entity_id equal to the
\* identifier given, with the attributes as further fields
C15_DeviceCallTargetsEntity ==
    (/\ pc = "tool_returned"
     /\ tool_name = "control_device"
     /\ {"entity_id", "action"} \subseteq DOMAIN tool_input)
        => /\ Len(tool_return.calls) = 1
           /\ tool_return.calls[1].method = "POST"
           /\ tool_return.calls[1].url.api = "services"
           /\ tool_return.calls[1].url.service = tool_input.action
           /\ InDomain(tool_input.entity_id, tool_return.calls[1].url.domain)
                 \/ tool_return.calls[1].url.domain = tool_input.entity_id
           /\ tool_return.calls[1].json.entity_id = tool_input.entity_id
           /\ "attributes" \in DOMAIN tool_input
                 => \A k \in DOMAIN tool_input.attributes \ {"entity_id"} :
                       tool_return.calls[1].json[k] = tool_input.attributes[k]

IsServicePost(call) == call.method = "POST" /\ call.url.api = "services"

\* C16 (as claimed): every POST to the services surface has an entity_id
\* field in its body
C16_PostHasEntityId ==
    pc = "tool_returned"
        => \A i \in 1..Len(tool_return.calls) :
              IsServicePost(tool_return.calls[i])
                 => "entity_id" \in DOMAIN tool_return.calls[i].json

\* C16 (amended): the POSTs of control_device, control_climate and
\* execute_scene have an entity_id field in their body; the POST of
\* call_service has one exactly when a non-empty entity_id was given or the
\* data map given has that key.
C16_EntityIdUnlessCallService ==
    pc = "tool_returned"
        => \A i \in 1..Len(tool_return.calls) :
              IsServicePost(tool_return.calls[i])
                 => IF tool_name = "call_service"
                    THEN ("entity_id" \in DOMAIN tool_return.calls[i].json)
                           <=> \/ /\ "entity_id" \in DOMAIN tool_input
                                  /\ tool_input.entity_id # <<>>
                               \/ /\ "data" \in DOMAIN tool_input
                                  /\ "entity_id" \in DOMAIN tool_input.data
                    ELSE "entity_id" \in DOMAIN tool_return.calls[i].json

\* C16 witness: call_service without an entity identifier posted a body
\* without entity_id
C16_Witness ==
    /\ pc = "tool_returned"
    /\ tool_name = "call_service"
    /\ Len(tool_return.calls) = 1
    /\ tool_return.calls[1].json = [transition |-> 2]
    /\ tool_return.value = [success |-> TRUE]

ModeCallIssued == \E i \in 1..Len(tool_return.calls) : IsModeCall(tool_return.calls[i])

TempCallIssued == \E i \in 1..Len(tool_return.calls) : IsTempCall(tool_return.calls[i])

\* C18 (as claimed): a control_climate invocation issues set_temperature
\* exactly when a temperature is given and set_hvac_mode exactly when a mode
\* is given; with neither it issues nothing and returns success with the
\* entity identifier
C18_CallsIffFields ==
    (pc = "tool_returned" /\ tool_name = "control_climate")
        => /\ TempCallIssued <=> "temperature" \in DOMAIN tool_input
           /\ ModeCallIssued <=> "hvac_mode" \in DOMAIN tool_input
           /\ {"temperature", "hvac_mode"} \cap DOMAIN tool_input = {}
                 => /\ tool_return.calls = <<>>
                    /\ DOMAIN tool_return.value = {"success", "entity"}

\* C18 (amended): with an entity identifier, set_hvac_mode is issued exactly
\* when a mode is given, set_temperature exactly when a temperature is given
\* and the mode request, if any, did not fail at the network level, no other
\* call is issued (fan_mode causes none), and with neither field the result
\* is success with the entity identifier; without an entity identifier no
\* call is issued and the result is an error.
C18_CallsIffFieldsAndEntity ==
    (pc = "tool_returned" /\ tool_name = "control_climate")
        => IF "entity_id" \in DOMAIN tool_input
           THEN /\ ModeCallIssued <=> "hvac_mode" \in DOMAIN tool_input
                /\ TempCallIssued
                     <=> /\ "temperature" \in DOMAIN tool_input
                         /\ "hvac_mode" \in DOMAIN tool_input
                               => tool_return.calls[1].outcome # "network_error"
                /\ Len(tool_return.calls)
                     = (IF ModeCallIssued THEN 1 ELSE 0)
                       + (IF TempCallIssued THEN 1 ELSE 0)
                /\ {"temperature", "hvac_mode"} \cap DOMAIN tool_input = {}
                      => /\ tool_return.calls = <<>>
                         /\ tool_return.value
                              = [success |-> TRUE,
                                 entity |-> tool_input.entity_id]
           ELSE /\ tool_return.calls = <<>>
                /\ IsErrorResult(tool_return.value)

\* C18 witness: an invocation with only fan_mode issued nothing and succeeded
C18_Witness ==
    /\ pc = "tool_returned"
    /\ tool_name = "control_climate"
    /\ tool_input = [entity_id |-> ClimateT, fan_mode |-> "auto"]
    /\ tool_return.calls = <<>>
    /\ "success" \in DOMAIN tool_return.value

\* C20: the response of an authenticated request has speech and card body
\* equal to the text returned by process_command_with_claude, the session
\* flag true and the fixed card title, whatever the tools did.
C20_ResponseFromText ==
    (pc = "done" /\ request.x_api_key = BRIDGE_API_KEY)
        => /\ http_response.status = 200
           /\ http_response.body
                = [speech |-> response_text, should_end_session |-> TRUE,
                   card_title |-> "Casa Inteligente",
                   card_content |-> response_text]
           /\ \/ Apologised
              \/ IsTrimOf(response_text,
                          JoinedText(response.content, Len(response.content)))

\* C20 witness: a request in which a tool failed was answered with the text
\* of the final reply
C20_Witness ==
    /\ pc = "done"
    /\ request.x_api_key = BRIDGE_API_KEY
    /\ \E i \in 1..Len(executed) : IsErrorResult(executed[i].ret.value)
    /\ llm_calls[Len(llm_calls)].ok
    /\ response_text # <<>>

====
